---- MODULE Spec2Model ----
(***************************************************************************)
(* Credit Transaction Engine of AMALI-ADMIN-DASHBOARD:                     *)
(*   CreditService.calculateSimulation / createTransaction                 *)
(*   PaymentController.payInstallment                                      *)
(* Storage is PostgreSQL through Prisma interactive transactions at the    *)
(* default isolation level (no isolationLevel option is passed to          *)
(* prisma.$transaction): every statement reads the rows committed at the   *)
(* time it runs, a transaction's own writes stay invisible to the others   *)
(* until it commits, and an UPDATE holds its row's lock until the          *)
(* transaction ends.                                                       *)
(*                                                                         *)
(* Money is decimal.js Decimal.  A Decimal is modelled as the record       *)
(* [w, f] standing for w + f/10000 with 0 <= f < 10000: every value the    *)
(* engine computes from whole-unit prices and a rate with two decimals     *)
(* has at most four decimals and far fewer than the 20 significant digits  *)
(* Decimal.set configures, so the arithmetic below is the exact one.       *)
(***************************************************************************)
EXTENDS Integers, Sequences, FiniteSets, TLC

\* ------------------------------------------------------------------ Decimal
FracUnit == 10000

Dec(n) == [w |-> n, f |-> 0]

\* scheme.interest_rate / scheme.min_dp_percent: DECIMAL columns with two
\* decimals, kept as hundredths; new Decimal(x.toString()) converts them.
DecFromHundredths(h) == [w |-> h \div 100, f |-> (h % 100) * 100]

DecPlus(a, b) ==
  [w |-> a.w + b.w + (a.f + b.f) \div FracUnit, f |-> (a.f + b.f) % FracUnit]

DecMinus(a, b) ==
  [w |-> a.w - b.w + (a.f - b.f) \div FracUnit, f |-> (a.f - b.f) % FracUnit]

\* d.mul(n) for a whole number n (n is split so that no product leaves the
\* integer range of TLC).
DecTimesInt(d, n) ==
  LET nh == n \div FracUnit
      nl == n % FracUnit
      cross == d.f * nl
  IN  [w |-> d.w * n + d.f * nh + cross \div FracUnit, f |-> cross % FracUnit]

\* d.div(100), exact for a d with at most two decimals.
DecDiv100(d) ==
  [w |-> d.w \div 100, f |-> (d.w % 100) * 100 + d.f \div 100]

\* Variant: a comparison that also holds of equal values.
DecLe(a, b) == a.w < b.w \/ (a.w = b.w /\ a.f <= b.f)

\* Decimal.lt
DecLt(a, b) == a.w < b.w \/ (a.w = b.w /\ a.f < b.f)

\* Variant: a division that rounds down instead of up.
DecDivFloor(d, n) == [w |-> d.w \div n, f |-> 0]

\* Variant: a division that always adds one to the whole part.
DecDivUp(d, n) == [w |-> d.w \div n + 1, f |-> 0]

\* d.div(n).toDecimalPlaces(0, Decimal.ROUND_CEIL), n > 0.
DecDivCeil(d, n) ==
  [w |-> d.w \div n + (IF d.w % n = 0 /\ d.f = 0 THEN 0 ELSE 1), f |-> 0]

\* ------------------------------------------------------------ error messages
\* A message is the sequence of its words; an id, an amount or a list the
\* code interpolates is the word "#", a product's or a scheme's name the
\* word "<name>".
ErrSchemeNotFound == <<"Loan", "scheme", "with", "ID", "#", "not", "found">>
ErrSchemeInactive == <<"Loan", "scheme", "<name>", "is", "not", "active">>
ErrTenor ==
  <<"Tenor", "#", "bulan", "tidak", "tersedia.", "Pilihan:", "#", "bulan">>
ErrMinDp ==
  <<"DP", "minimal", "#%", "dari", "harga", "(Rp", "#).",
    "DP", "yang", "dimasukkan:", "Rp", "#">>
ErrDueDateDay == <<"Tanggal", "jatuh", "tempo", "harus", "antara", "1-28">>
ErrProductMissing == <<"Produk", "dengan", "ID", "#", "tidak", "ditemukan">>
ErrProductInactive == <<"Produk", "<name>", "tidak", "aktif">>
ErrStock == <<"Stok", "produk", "<name>", "habis">>
ErrCustomerMissing == <<"Customer", "dengan", "ID", "#", "tidak", "ditemukan">>
ErrInstMissing == <<"Installment", "not", "found">>
ErrAlreadyPaid == <<"Installment", "is", "already", "paid">>
ErrPrice == <<"Harga", "harus", "lebih", "dari", "0">>
ErrDpNegative == <<"DP", "tidak", "boleh", "negatif">>
ErrDpTooHigh ==
  <<"DP", "tidak", "boleh", "melebihi", "atau", "sama", "dengan", "harga">>
ErrMissingFields ==
  <<"Missing", "required", "fields:", "price,", "dp,", "schemeId,",
    "tenorMonths">>
ErrNotPositive ==
  <<"Price", "and", "tenor", "must", "be", "positive.", "DP", "cannot", "be",
    "negative.">>
\* the message of an error the storage raises
ErrQuantity == <<"Quantity", "must", "be", "a", "positive", "number">>
ErrRecordMissing == <<"Record", "to", "update", "not", "found">>
ErrStorage == <<"storage", "failure">>
NoError == <<>>

\* message.includes(phrase)
Includes(message, phrase) ==
  \E i \in 0..(Len(message) - Len(phrase)) :
    SubSeq(message, i + 1, i + Len(phrase)) = phrase

\* The catch block of TransactionController.create: the status is chosen by
\* the words of the message.
CreateErrorStatus(message) ==
  IF Includes(message, <<"tidak", "ditemukan">>)
       \/ Includes(message, <<"not", "found">>) THEN 404
  ELSE IF Includes(message, <<"habis">>)
       \/ Includes(message, <<"tidak", "aktif">>) THEN 409
  ELSE 400

NoScheme == [id |-> 0]

SeqToSet(s) == {s[i] : i \in 1..Len(s)}

\* prisma.loanScheme.findUnique({ where: { id } })
FindScheme(table, id) == IF id \in DOMAIN table THEN table[id] ELSE NoScheme

\* ------------------------------------------------------ Simulation Engine
SimFailure(msg) == [ok |-> FALSE, error |-> msg]

\* Variant: the minimum down payment is checked before the tenor.
CalculateSimulationDpFirst(table, input) ==
  LET scheme == FindScheme(table, input.schemeId)
      priceDecimal == Dec(input.price)
      dpDecimal == Dec(input.dp)
      minDpPercent == DecFromHundredths(scheme.min_dp_percent)
      minDpAmount == DecDiv100(DecTimesInt(minDpPercent, priceDecimal.w))
      principal == DecMinus(priceDecimal, dpDecimal)
      interestRate == DecFromHundredths(scheme.interest_rate)
      interestAmount ==
        DecTimesInt(DecDiv100(DecTimesInt(interestRate, principal.w)),
                    input.tenorMonths)
      totalLoan == DecPlus(principal, interestAmount)
      monthlyInstallment == DecDivCeil(totalLoan, input.tenorMonths)
  IN  IF scheme = NoScheme THEN SimFailure(ErrSchemeNotFound)
      ELSE IF ~scheme.is_active THEN SimFailure(ErrSchemeInactive)
      ELSE IF DecLt(dpDecimal, minDpAmount) THEN SimFailure(ErrMinDp)
      ELSE IF input.tenorMonths \notin SeqToSet(scheme.tenor_options)
        THEN SimFailure(ErrTenor)
      ELSE [ok |-> TRUE, error |-> NoError,
            raw |-> [price |-> priceDecimal, dp |-> dpDecimal,
                     principal |-> principal, interestRate |-> interestRate,
                     interestAmount |-> interestAmount, totalLoan |-> totalLoan,
                     monthlyInstallment |-> monthlyInstallment,
                     tenorMonths |-> input.tenorMonths],
            scheme |-> scheme]

\* CreditService.calculateSimulation: the scheme is read from the committed
\* table (the global prisma client).
CalculateSimulation(table, input) ==
  LET scheme == FindScheme(table, input.schemeId)
      priceDecimal == Dec(input.price)
      dpDecimal == Dec(input.dp)
      minDpPercent == DecFromHundredths(scheme.min_dp_percent)
      minDpAmount == DecDiv100(DecTimesInt(minDpPercent, priceDecimal.w))
      principal == DecMinus(priceDecimal, dpDecimal)
      interestRate == DecFromHundredths(scheme.interest_rate)
      interestAmount ==
        DecTimesInt(DecDiv100(DecTimesInt(interestRate, principal.w)),
                    input.tenorMonths)
      totalLoan == DecPlus(principal, interestAmount)
      monthlyInstallment == DecDivCeil(totalLoan, input.tenorMonths)
  IN  IF scheme = NoScheme THEN SimFailure(ErrSchemeNotFound)
      ELSE IF ~scheme.is_active THEN SimFailure(ErrSchemeInactive)
      ELSE IF input.tenorMonths \notin SeqToSet(scheme.tenor_options)
        THEN SimFailure(ErrTenor)
      ELSE IF DecLt(dpDecimal, minDpAmount) THEN SimFailure(ErrMinDp)
      ELSE [ok |-> TRUE, error |-> NoError,
            raw |-> [price |-> priceDecimal, dp |-> dpDecimal,
                     principal |-> principal, interestRate |-> interestRate,
                     interestAmount |-> interestAmount, totalLoan |-> totalLoan,
                     monthlyInstallment |-> monthlyInstallment,
                     tenorMonths |-> input.tenorMonths],
            scheme |-> scheme]

\* Variant: a simulation inside the transaction that checks neither the
\* tenor nor the minimum down payment.
CalculateSimulationWithTxTrusting(table, input) ==
  LET scheme == FindScheme(table, input.schemeId)
      priceDecimal == Dec(input.price)
      dpDecimal == Dec(input.dp)
      principal == DecMinus(priceDecimal, dpDecimal)
      interestRate == DecFromHundredths(scheme.interest_rate)
      interestAmount ==
        DecTimesInt(DecDiv100(DecTimesInt(interestRate, principal.w)),
                    input.tenorMonths)
      totalLoan == DecPlus(principal, interestAmount)
      monthlyInstallment == DecDivCeil(totalLoan, input.tenorMonths)
  IN  IF scheme = NoScheme THEN SimFailure(ErrSchemeNotFound)
      ELSE IF ~scheme.is_active THEN SimFailure(ErrSchemeInactive)
      ELSE [ok |-> TRUE, error |-> NoError,
            raw |-> [price |-> priceDecimal, dp |-> dpDecimal,
                     principal |-> principal, interestRate |-> interestRate,
                     interestAmount |-> interestAmount, totalLoan |-> totalLoan,
                     monthlyInstallment |-> monthlyInstallment,
                     tenorMonths |-> input.tenorMonths],
            scheme |-> scheme]

\* CreditService.calculateSimulationWithTx: the same engine, reading the
\* scheme through the open transaction.
CalculateSimulationWithTx(table, input) ==
  LET scheme == FindScheme(table, input.schemeId)
      priceDecimal == Dec(input.price)
      dpDecimal == Dec(input.dp)
      minDpPercent == DecFromHundredths(scheme.min_dp_percent)
      minDpAmount == DecDiv100(DecTimesInt(minDpPercent, priceDecimal.w))
      principal == DecMinus(priceDecimal, dpDecimal)
      interestRate == DecFromHundredths(scheme.interest_rate)
      interestAmount ==
        DecTimesInt(DecDiv100(DecTimesInt(interestRate, principal.w)),
                    input.tenorMonths)
      totalLoan == DecPlus(principal, interestAmount)
      monthlyInstallment == DecDivCeil(totalLoan, input.tenorMonths)
  IN  IF scheme = NoScheme THEN SimFailure(ErrSchemeNotFound)
      ELSE IF ~scheme.is_active THEN SimFailure(ErrSchemeInactive)
      ELSE IF input.tenorMonths \notin SeqToSet(scheme.tenor_options)
        THEN SimFailure(ErrTenor)
      ELSE IF DecLt(dpDecimal, minDpAmount) THEN SimFailure(ErrMinDp)
      ELSE [ok |-> TRUE, error |-> NoError,
            raw |-> [price |-> priceDecimal, dp |-> dpDecimal,
                     principal |-> principal, interestRate |-> interestRate,
                     interestAmount |-> interestAmount, totalLoan |-> totalLoan,
                     monthlyInstallment |-> monthlyInstallment,
                     tenorMonths |-> input.tenorMonths],
            scheme |-> scheme]

\* ------------------------------------------------------------------ bounds
NumProcs  == 2      \* request handlers that may run concurrently
InitStock == 1      \* stock_qty of the sellable product when handlers race
SeqStock  == 2      \* stock_qty of the sellable product in a sequential run
MaxEdits  == 1      \* scheme fields an operator has changed at any time
MaxRestock == 2     \* quantity the accepted restocks of a product add in all

Procs == 1..NumProcs

\* ------------------------------------------------------------------- state
VARIABLES
  products,       \* Product rows:      id -> [is_active, stock_qty]
  loanSchemes,    \* LoanScheme rows:   id -> scheme
  transactions,   \* Transaction rows:  id -> row          (committed)
  contracts,      \* CreditContract rows: id -> row        (committed)
  installments,   \* Installment rows:  id -> row          (committed)
  pc,             \* where each request handler stands
  req,            \* the request a handler is serving
  loc,            \* the handler's local variables
  wr,             \* the uncommitted writes of the handler's open transaction
  result,         \* the answer the last step sent, if it sent one
  pre,            \* the committed rows when the running call began
  simIn,          \* input of a standalone simulation
  simOut,         \* its result
  simOutTx,       \* the result of calculateSimulationWithTx on the same input
  restocked,      \* per product, the quantity the accepted restocks added
  today           \* the calendar day of the run

db   == <<products, loanSchemes, transactions, contracts, installments>>
vars == <<products, loanSchemes, transactions, contracts, installments,
          pc, req, loc, wr, result, pre, simIn, simOut, simOutTx, restocked,
          today>>

CustomerIds == {1}

\* A Date is a calendar day [year, month, day] with month 0..11 as in
\* JavaScript (the schedule zeroes the time of day).
DaysInMonth(year, month) ==
  IF month = 1
    THEN IF year % 4 = 0 /\ (year % 100 # 0 \/ year % 400 = 0) THEN 29 ELSE 28
  ELSE IF month \in {3, 5, 8, 10} THEN 30
  ELSE 31

\* The day a Date holds once its fields are set to year, month >= 0 and
\* day >= 1: months past December run into the next year and days past the
\* end of the month run into the next month.
RECURSIVE MakeDay(_, _, _)
MakeDay(year, month, day) ==
  LET y == year + month \div 12
      m == month % 12
  IN  IF day > DaysInMonth(y, m)
        THEN MakeDay(y, m + 1, day - DaysInMonth(y, m))
        ELSE [year |-> y, month |-> m, day |-> day]

\* date.setMonth(month) and date.setDate(day)
SetMonth(date, month) == MakeDay(date.year, month, date.day)
SetDate(date, day) == MakeDay(date.year, date.month, day)

\* dueDate = new Date(startDate); dueDate.setMonth(dueDate.getMonth() + i);
\* dueDate.setDate(dueDateDay); dueDate.setHours(0, 0, 0, 0)
DueDate(startDate, i, dueDateDay) ==
  SetDate(SetMonth(startDate, startDate.month + i), dueDateDay)

\* The day of a run whose date matters to no claim checked in it, and the
\* days a sale may happen on in the runs about the schedule: mid-month, the
\* last days of January in a common and in a leap year, and the ends of
\* March, October and December.
OpeningDay == [year |-> 2025, month |-> 0, day |-> 15]

StartDates ==
  {OpeningDay,
   [year |-> 2025, month |-> 0, day |-> 29],
   [year |-> 2025, month |-> 0, day |-> 30],
   [year |-> 2025, month |-> 0, day |-> 31],
   [year |-> 2024, month |-> 0, day |-> 31],
   [year |-> 2025, month |-> 2, day |-> 31],
   [year |-> 2025, month |-> 9, day |-> 31],
   [year |-> 2025, month |-> 11, day |-> 31]}

\* new Date() as a timestamp (paid_at), which the model does not tell from
\* another; paid_at is NULL until a payment sets it.
Now == "now"
Null == "null"

NoReq == [op |-> "none"]
NoLoc == [op |-> "none"]
NoResult ==
  [op |-> "none", ok |-> FALSE, error |-> NoError, at |-> "", req |-> NoReq,
   status |-> 0]
NoWrites ==
  [transactions |-> <<>>, contracts |-> <<>>, installments |-> <<>>,
   instUpd |-> <<>>, txUpd |-> <<>>, stockDec |-> {}]
NoSim == [ok |-> FALSE, error |-> <<"none">>]
NoRestock == [id \in {1, 2} |-> 0]

\* The scheme table of the shop runs: scheme 1 is on offer, scheme 2 is
\* withdrawn.
ShopSchemes ==
  (1 :> [id |-> 1, interest_rate |-> 200, min_dp_percent |-> 1000,
         tenor_options |-> <<1, 2>>, is_active |-> TRUE]) @@
  (2 :> [id |-> 2, interest_rate |-> 250, min_dp_percent |-> 0,
         tenor_options |-> <<1, 2>>, is_active |-> FALSE])

InitDb(stock) ==
  /\ products = (1 :> [is_active |-> TRUE, stock_qty |-> stock]) @@
                (2 :> [is_active |-> FALSE, stock_qty |-> stock])
  /\ transactions = <<>>
  /\ contracts = <<>>
  /\ installments = <<>>

InitProcs ==
  /\ pc = [p \in Procs |-> "idle"]
  /\ req = [p \in Procs |-> NoReq]
  /\ loc = [p \in Procs |-> NoLoc]
  /\ wr = [p \in Procs |-> NoWrites]
  /\ result = NoResult
  /\ pre = [products |-> <<>>, transactions |-> <<>>,
            contracts |-> <<>>, installments |-> <<>>]

Init ==
  /\ InitDb(InitStock)
  /\ InitProcs
  /\ loanSchemes = ShopSchemes
  /\ simIn = NoReq
  /\ simOut = NoSim
  /\ simOutTx = NoSim
  /\ restocked = NoRestock
  /\ today = OpeningDay

\* ------------------------------------------------- storage (transactions)
\* The smallest id no committed and no uncommitted row of a table uses.
FreshId(used) ==
  CHOOSE n \in 1..(Cardinality(used) + 1) :
    n \notin used /\ \A m \in 1..(n - 1) : m \in used

UsedTransactionIds ==
  DOMAIN transactions \cup UNION {DOMAIN wr[q].transactions : q \in Procs}
UsedContractIds ==
  DOMAIN contracts \cup UNION {DOMAIN wr[q].contracts : q \in Procs}
UsedInstallmentIds ==
  DOMAIN installments \cup UNION {DOMAIN wr[q].installments : q \in Procs}

\* Row locks: an UPDATE waits while another open transaction has written
\* the row.
ProductLockedByOther(p, id) == \E q \in Procs \ {p} : id \in wr[q].stockDec
InstallmentLockedByOther(p, id) ==
  \E q \in Procs \ {p} : id \in DOMAIN wr[q].instUpd
TransactionLockedByOther(p, id) ==
  \E q \in Procs \ {p} : id \in DOMAIN wr[q].txUpd

\* COMMIT: the writes of p's transaction become the committed rows.
CommittedProducts(w) ==
  [id \in DOMAIN products |->
     IF id \in w.stockDec
       THEN [products[id] EXCEPT !.stock_qty = products[id].stock_qty - 1]
       ELSE products[id]]

CommittedTransactions(w) ==
  LET all == w.transactions @@ transactions
  IN  [id \in DOMAIN all |->
         IF id \in DOMAIN w.txUpd
           THEN [all[id] EXCEPT !.status = w.txUpd[id]]
           ELSE all[id]]

CommittedInstallments(w) ==
  LET all == w.installments @@ installments
  IN  [id \in DOMAIN all |->
         IF id \in DOMAIN w.instUpd
           THEN [all[id] EXCEPT !.status = w.instUpd[id].status,
                                !.amount_paid = w.instUpd[id].amount_paid,
                                !.paid_at = w.instUpd[id].paid_at]
           ELSE all[id]]

CommitWrites(p) ==
  /\ products' = CommittedProducts(wr[p])
  /\ transactions' = CommittedTransactions(wr[p])
  /\ contracts' = wr[p].contracts @@ contracts
  /\ installments' = CommittedInstallments(wr[p])

\* Variant: a rollback that keeps the rows written before the throw.
RollbackWritesLeaky(w) ==
  /\ products' = products
  /\ transactions' = w.transactions @@ transactions
  /\ contracts' = w.contracts @@ contracts
  /\ installments' = CommittedInstallments(w)

\* ROLLBACK: prisma.$transaction discards every write w the callback made
\* before it threw.
RollbackWrites(w) ==
  /\ products' = products
  /\ transactions' = transactions
  /\ contracts' = contracts
  /\ installments' = installments

\* The handler answers and is free for the next request.
Answer(p, r) ==
  /\ result' = r
  /\ pc' = [pc EXCEPT ![p] = "idle"]
  /\ req' = [req EXCEPT ![p] = NoReq]
  /\ loc' = [loc EXCEPT ![p] = NoLoc]
  /\ wr' = [wr EXCEPT ![p] = NoWrites]

\* The callback throws at statement `at`, having written w: the transaction
\* rolls back and the handler answers with the error.
Throw(p, op, msg, at, w) ==
  /\ RollbackWrites(w)
  /\ Answer(p, [op |-> op, ok |-> FALSE, error |-> msg, at |-> at,
                req |-> req[p],
                status |-> IF op = "create" THEN CreateErrorStatus(msg)
                           ELSE 400])

Goto(p, label) == pc' = [pc EXCEPT ![p] = label]

\* ------------------------------------------------ Transaction Orchestrator
\* Requests the POS sends.  Product 3, customer 2 and scheme 3 do not exist,
\* product 2 and scheme 2 are inactive, tenor 5 is no option of a scheme, a
\* dp of 50 is below the minimum of scheme 1 and days 0 and 29 are out of
\* range: a valid request for each tenor, each request with one fault, and
\* requests with two; a dp of 1000 equals the price and a dp of -1 is
\* negative.  A price of 1005 with a dp of 101 gives a total loan that is no
\* whole number.
ValidInput(tenorMonths) ==
  [productId |-> 1, customerId |-> 1, price |-> 1000, dp |-> 100,
   schemeId |-> 1, tenorMonths |-> tenorMonths, dueDateDay |-> 5]

CreateInputs ==
  LET v == ValidInput(2)
  IN  {ValidInput(1), v, [v EXCEPT !.price = 1005, !.dp = 101],
       [v EXCEPT !.productId = 2], [v EXCEPT !.productId = 3],
       [v EXCEPT !.customerId = 2],
       [v EXCEPT !.schemeId = 2], [v EXCEPT !.schemeId = 3],
       [v EXCEPT !.tenorMonths = 5], [v EXCEPT !.dp = 50],
       [v EXCEPT !.dueDateDay = 0], [v EXCEPT !.dueDateDay = 29],
       [v EXCEPT !.dp = 1000], [v EXCEPT !.dp = -1],
       [v EXCEPT !.productId = 3, !.dueDateDay = 29],
       [v EXCEPT !.customerId = 2, !.dueDateDay = 29],
       [v EXCEPT !.schemeId = 2, !.tenorMonths = 5],
       [v EXCEPT !.tenorMonths = 5, !.dp = 50]}

\* Variant: a stock check that lets a sale through at stock 0.
OutOfStockBelowZero(product) == product.stock_qty < 0

\* if (product.stock_qty <= 0)
OutOfStock(product) == product.stock_qty <= 0

NoFailure == [error |-> NoError, at |-> ""]

\* Variant: any day of the month up to 31 is accepted.
InvalidDueDateDayAbove31(input) == input.dueDateDay < 1 \/ input.dueDateDay > 31

\* if (input.dueDateDay < 1 || input.dueDateDay > 28)
InvalidDueDateDay(input) == input.dueDateDay < 1 \/ input.dueDateDay > 28

\* Variant: the dueDateDay validation comes after the simulation.
CreateTransactionFailureDueDateLast(input, simulation) ==
  IF input.productId \notin DOMAIN products
    THEN [error |-> ErrProductMissing, at |-> "product.findUnique"]
  ELSE IF ~products[input.productId].is_active
    THEN [error |-> ErrProductInactive, at |-> "product.findUnique"]
  ELSE IF OutOfStock(products[input.productId])
    THEN [error |-> ErrStock, at |-> "product.findUnique"]
  ELSE IF input.customerId \notin CustomerIds
    THEN [error |-> ErrCustomerMissing, at |-> "customer.findUnique"]
  ELSE IF ~simulation.ok
    THEN [error |-> simulation.error, at |-> "calculateSimulationWithTx"]
  ELSE IF InvalidDueDateDay(input)
    THEN [error |-> ErrDueDateDay, at |-> "validate"]
  ELSE NoFailure

\* The checks of createTransaction in the order the code runs them, and the
\* error of the first that fails: the dueDateDay validation, then, inside the
\* transaction, the product, the customer and the simulation.
CreateTransactionFailure(input, simulation) ==
  IF InvalidDueDateDay(input)
    THEN [error |-> ErrDueDateDay, at |-> "validate"]
  ELSE IF input.productId \notin DOMAIN products
    THEN [error |-> ErrProductMissing, at |-> "product.findUnique"]
  ELSE IF ~products[input.productId].is_active
    THEN [error |-> ErrProductInactive, at |-> "product.findUnique"]
  ELSE IF OutOfStock(products[input.productId])
    THEN [error |-> ErrStock, at |-> "product.findUnique"]
  ELSE IF input.customerId \notin CustomerIds
    THEN [error |-> ErrCustomerMissing, at |-> "customer.findUnique"]
  ELSE IF ~simulation.ok
    THEN [error |-> simulation.error, at |-> "calculateSimulationWithTx"]
  ELSE NoFailure

\* Variant: a down payment equal to the price passes.
DpTooHighAbovePrice(input) == input.dp > input.price

\* if (dp >= price)
DpTooHigh(input) == input.dp >= input.price

\* TransactionController.create and createTransaction up to its last read.
\* The controller's checks of price and dp; the dueDateDay validation; then,
\* inside the transaction, tx.product.findUnique and its three checks,
\* tx.customer.findUnique and its check, and calculateSimulationWithTx.
\* The reads are of rows of three different tables, of which only the
\* product row is ever written by another handler.
CreateStart(p, input) ==
  LET simulation == CalculateSimulationWithTx(loanSchemes, input)
      fail(msg, at) == [op |-> "create", ok |-> FALSE, error |-> msg, at |-> at,
                        req |-> [op |-> "create", input |-> input],
                        status |-> CreateErrorStatus(msg)]
      failure == CreateTransactionFailure(input, simulation)
      invalid(msg) == [op |-> "create", ok |-> FALSE, error |-> msg,
                       at |-> "controller",
                       req |-> [op |-> "create", input |-> input],
                       status |-> 400]
  IN
  /\ pc[p] = "idle"
  /\ UNCHANGED <<products, transactions, contracts, installments>>
  /\ IF input.price <= 0 THEN Answer(p, invalid(ErrPrice))
     ELSE IF input.dp < 0 THEN Answer(p, invalid(ErrDpNegative))
     ELSE IF DpTooHigh(input) THEN Answer(p, invalid(ErrDpTooHigh))
     ELSE IF failure # NoFailure
       THEN Answer(p, fail(failure.error, failure.at))
     ELSE /\ req' = [req EXCEPT ![p] = [op |-> "create", input |-> input]]
          /\ loc' = [loc EXCEPT ![p] =
                       [op |-> "create", product |-> products[input.productId],
                        simulation |-> simulation]]
          /\ Goto(p, "c_write")
          /\ result' = NoResult
          /\ UNCHANGED wr

\* Variant: the row refers to the live scheme instead of copying it.
TransactionRowSchemeRef(input, simulation) ==
  [customerId |-> input.customerId,
   productId |-> input.productId,
   total_price |-> input.price,
   dp_amount |-> input.dp,
   scheme_snapshot |-> [id |-> simulation.scheme.id],
   status |-> "ACTIVE"]

\* tx.transaction.create; scheme_snapshot is JSON.parse(JSON.stringify(scheme)),
\* a value of its own.
TransactionRow(input, simulation) ==
  [customerId |-> input.customerId,
   productId |-> input.productId,
   total_price |-> input.price,
   dp_amount |-> input.dp,
   scheme_snapshot |-> simulation.scheme,
   status |-> "ACTIVE"]

\* tx.creditContract.create; the amounts are stored with toFixed(4).
ContractRow(input, simulation, transactionId) ==
  [transaction_id |-> transactionId,
   principal_amount |-> simulation.raw.principal,
   total_interest |-> simulation.raw.interestAmount,
   monthly_installment |-> simulation.raw.monthlyInstallment,
   start_date |-> today,
   due_date_day |-> input.dueDateDay,
   tenor_months |-> input.tenorMonths]

\* Variant: a loop that stops one installment short.
LoopIndicesShort(tenorMonths) == 1..(tenorMonths - 1)

\* for (let i = 1; i <= tenorMonths; i++)
LoopIndices(tenorMonths) == 1..tenorMonths

\* Variant: an amount_due rounded down.
InstallmentRowRoundedDown(contractId, i, simulation, dueDate) ==
  [contract_id |-> contractId,
   installment_nth |-> i,
   due_date |-> dueDate,
   amount_due |-> DecDivFloor(simulation.raw.totalLoan,
                              simulation.raw.tenorMonths),
   amount_paid |-> Dec(0),
   status |-> "UNPAID",
   paid_at |-> Null]

\* tx.installment.create for installment i.
InstallmentRow(contractId, i, simulation, dueDate) ==
  [contract_id |-> contractId,
   installment_nth |-> i,
   due_date |-> dueDate,
   amount_due |-> simulation.raw.monthlyInstallment,
   amount_paid |-> Dec(0),
   status |-> "UNPAID",
   paid_at |-> Null]

\* The n smallest ids no row of a table uses, and the k-th of them.
FreshIds(used, n) ==
  LET free == (1..(Cardinality(used) + n)) \ used
  IN  {k \in free : Cardinality({m \in free : m < k}) < n}

KthOf(ids, k) == CHOOSE id \in ids : Cardinality({m \in ids : m <= id}) = k

\* The rows p's transaction has inserted once `done` of its inserts have
\* run: the Transaction, the CreditContract, then installment 1, 2, ...
CreateInserts(p, done) ==
  LET input == req[p].input
      simulation == loc[p].simulation
      transactionId == FreshId(UsedTransactionIds)
      contractId == FreshId(UsedContractIds)
      loop == {i \in LoopIndices(input.tenorMonths) : i + 2 <= done}
      ids == FreshIds(UsedInstallmentIds, Cardinality(loop))
  IN  [NoWrites EXCEPT
         !.transactions =
            IF done >= 1
              THEN (transactionId :> TransactionRow(input, simulation))
              ELSE <<>>,
         !.contracts =
            IF done >= 2
              THEN (contractId :> ContractRow(input, simulation, transactionId))
              ELSE <<>>,
         !.installments =
            [id \in ids |->
               LET i == CHOOSE k \in loop : KthOf(ids, k) = id
               IN  InstallmentRow(contractId, i, simulation,
                                  DueDate(today, i, input.dueDateDay))]]

InsertCount(tenorMonths) == 2 + Cardinality(LoopIndices(tenorMonths))

Statement(done, tenorMonths) ==
  IF done = 0 THEN "transaction.create"
  ELSE IF done = 1 THEN "creditContract.create"
  ELSE IF done < InsertCount(tenorMonths) THEN "installment.create"
  ELSE "product.update"

\* The writes of createTransaction: the inserts, which no other transaction
\* sees before the commit, then tx.product.update({ stock_qty: { decrement:
\* 1 } }): UPDATE ... SET stock_qty = stock_qty - 1, which waits for the
\* row's lock and has no condition on the value it decrements.  The storage
\* may fail at any of the statements.
CreateWrite(p) ==
  LET n == InsertCount(req[p].input.tenorMonths)
  IN
  /\ pc[p] = "c_write"
  /\ \/ \E done \in 0..n :
          Throw(p, "create", ErrStorage,
                Statement(done, req[p].input.tenorMonths), CreateInserts(p, done))
     \/ /\ ~ProductLockedByOther(p, req[p].input.productId)
        /\ wr' = [wr EXCEPT ![p] =
                    [CreateInserts(p, n) EXCEPT
                       !.stockDec = {req[p].input.productId}]]
        /\ Goto(p, "c_commit")
        /\ result' = NoResult
        /\ UNCHANGED <<products, transactions, contracts, installments,
                       req, loc>>

\* The callback returns and the transaction commits; remainingStock is
\* computed from the product row read at the start.
CreateCommit(p) ==
  /\ pc[p] = "c_commit"
  /\ CommitWrites(p)
  /\ Answer(p, [op |-> "create", ok |-> TRUE, error |-> NoError, at |-> "commit",
                req |-> req[p], status |-> 201,
                remainingStock |-> loc[p].product.stock_qty - 1])

\* ---------------------------------------------------- Payment State Machine
\* Installment ids a cashier may submit: every existing one and one that
\* does not exist.
PayInputs == 1..(Cardinality(DOMAIN installments) + 1)

\* tx.installment.findUnique with include: contract { installments, transaction }
LoadInstallment(id) ==
  LET row == installments[id]
      siblings == {j \in DOMAIN installments :
                     installments[j].contract_id = row.contract_id}
  IN  [id |-> id, status |-> row.status, amount_due |-> row.amount_due,
       contract |->
         [transaction_id |-> contracts[row.contract_id].transaction_id,
          installments |-> [j \in siblings |-> installments[j].status]]]

\* Variant: an installment is also refused while an earlier one of its
\* contract is unpaid.
AlreadyPaidOrOutOfTurn(installment) ==
  \/ installment.status = "PAID"
  \/ \E j \in DOMAIN installments :
       /\ installments[j].contract_id = installment.contract_id
       /\ installments[j].installment_nth < installment.installment_nth
       /\ installments[j].status = "UNPAID"

\* Variant: no already-paid check.
AlreadyPaidNever(installment) == FALSE

\* if (installment.status === 'PAID')
AlreadyPaid(installment) == installment.status = "PAID"

\* payInstallment up to the two checks: the read and the throws on a missing
\* or an already paid installment.
PayStart(p, id) ==
  /\ pc[p] = "idle"
  /\ UNCHANGED <<products, transactions, contracts, installments>>
  /\ IF id \notin DOMAIN installments
       THEN Answer(p, [op |-> "pay", ok |-> FALSE, error |-> ErrInstMissing,
                       at |-> "installment.findUnique",
                       req |-> [op |-> "pay", installmentId |-> id],
                       status |-> 400])
     ELSE IF AlreadyPaid(installments[id])
       THEN Answer(p, [op |-> "pay", ok |-> FALSE, error |-> ErrAlreadyPaid,
                       at |-> "installment.findUnique",
                       req |-> [op |-> "pay", installmentId |-> id],
                       status |-> 400])
     ELSE /\ req' = [req EXCEPT ![p] = [op |-> "pay", installmentId |-> id]]
          /\ loc' = [loc EXCEPT ![p] =
                       [op |-> "pay", installment |-> LoadInstallment(id)]]
          /\ Goto(p, "p_update")
          /\ result' = NoResult
          /\ UNCHANGED wr

\* Variant: every payment completes the contract.
AllPaidIgnoringSelf(installment, installmentId) == TRUE

\* installment.contract.installments.every(inst =>
\*   inst.id === installmentId ? true : inst.status === 'PAID')
AllPaid(installment, installmentId) ==
  \A j \in DOMAIN installment.contract.installments :
    IF j = installmentId THEN TRUE
    ELSE installment.contract.installments[j] = "PAID"

\* Variant: the payment is recorded as received in part.
PaidUpdatePartial(installment) ==
  [status |-> "PARTIAL", amount_paid |-> installment.amount_due,
   paid_at |-> Now]

\* Variant: the payment sets the status and the time but not the amount.
PaidUpdateWithoutAmount(installment) ==
  [status |-> "PAID", amount_paid |-> Dec(0), paid_at |-> Now]

\* data: { status: 'PAID', amount_paid: installment.amount_due,
\*         paid_at: new Date() }
PaidUpdate(installment) ==
  [status |-> "PAID", amount_paid |-> installment.amount_due, paid_at |-> Now]

\* tx.installment.update, then the allPaid test on the rows read at the start.
PayUpdateInstallment(p) ==
  /\ pc[p] = "p_update"
  /\ ~InstallmentLockedByOther(p, req[p].installmentId)
  /\ \E fails \in BOOLEAN :
       IF fails
         THEN Throw(p, "pay", ErrStorage, "installment.update", wr[p])
         ELSE /\ wr' = [wr EXCEPT ![p].instUpd =
                          (req[p].installmentId :>
                             PaidUpdate(loc[p].installment))]
              /\ Goto(p, IF AllPaid(loc[p].installment, req[p].installmentId)
                           THEN "p_transaction" ELSE "p_commit")
              /\ result' = NoResult
              /\ UNCHANGED <<products, transactions, contracts, installments,
                             req, loc>>

\* tx.transaction.update({ status: 'PAID' })
PayUpdateTransaction(p) ==
  /\ pc[p] = "p_transaction"
  /\ ~TransactionLockedByOther(p, loc[p].installment.contract.transaction_id)
  /\ \E fails \in BOOLEAN :
       IF fails
         THEN Throw(p, "pay", ErrStorage, "transaction.update", wr[p])
         ELSE /\ wr' = [wr EXCEPT ![p].txUpd =
                          (loc[p].installment.contract.transaction_id :> "PAID")]
              /\ Goto(p, "p_commit")
              /\ result' = NoResult
              /\ UNCHANGED <<products, transactions, contracts, installments,
                             req, loc>>

\* The callback returns, the transaction commits and the handler answers 200.
PayCommit(p) ==
  /\ pc[p] = "p_commit"
  /\ CommitWrites(p)
  /\ Answer(p, [op |-> "pay", ok |-> TRUE, error |-> NoError, at |-> "commit",
                req |-> req[p], status |-> 200])

\* ------------------------------------------------------------- Inventory
\* Variant: the restock writes the quantity as the new stock.
StockAfterRestockSet(product, quantity) == quantity

\* data: { stock_qty: { increment: quantity_to_add } }:
\* UPDATE ... SET stock_qty = stock_qty + quantity_to_add
StockAfterRestock(product, quantity) == product.stock_qty + quantity

\* Product ids and quantities a stock keeper may submit: product 3 does not
\* exist, and a quantity of 0 is not positive.
RestockInputs == {1, 3} \X {0, 1, 2}

\* ProductController.restockProduct: the id in the path is a number and
\* quantity_to_add is a whole number.  A quantity <= 0 is answered 400; else
\* the handler runs one UPDATE outside any transaction, which waits while an
\* open transaction holds the lock of the row, commits by itself, and throws
\* when the row does not exist (answered 400 by the catch).
RestockProduct(id, quantity) ==
  LET answer(ok, msg, at, status) ==
        [op |-> "restock", ok |-> ok, error |-> msg, at |-> at,
         req |-> [op |-> "restock", productId |-> id,
                  quantity_to_add |-> quantity],
         status |-> status]
  IN
  /\ IF quantity <= 0
       THEN /\ result' = answer(FALSE, ErrQuantity, "controller", 400)
            /\ UNCHANGED <<products, restocked>>
     ELSE IF id \notin DOMAIN products
       THEN /\ result' = answer(FALSE, ErrRecordMissing, "product.update", 400)
            /\ UNCHANGED <<products, restocked>>
     ELSE /\ \A q \in Procs : id \notin wr[q].stockDec
          /\ restocked[id] + quantity <= MaxRestock
          /\ products' = [products EXCEPT ![id].stock_qty =
                            StockAfterRestock(products[id], quantity)]
          /\ restocked' = [restocked EXCEPT ![id] = @ + quantity]
          /\ result' = answer(TRUE, NoError, "product.update", 200)
  /\ UNCHANGED <<loanSchemes, transactions, contracts, installments,
                 pc, req, loc, wr, pre, simIn, simOut, simOutTx, today>>

\* --------------------------------------------------------- specifications
\* Concurrent handlers: any handler takes its next step.
Conc == UNCHANGED <<loanSchemes, pre, simIn, simOut, simOutTx, restocked, today>>

Next ==
  \/ \E p \in Procs : \E input \in CreateInputs : CreateStart(p, input) /\ Conc
  \/ \E p \in Procs : CreateWrite(p) /\ Conc
  \/ \E p \in Procs : CreateCommit(p) /\ Conc
  \/ \E p \in Procs : \E id \in PayInputs : PayStart(p, id) /\ Conc
  \/ \E p \in Procs : PayUpdateInstallment(p) /\ Conc
  \/ \E p \in Procs : PayUpdateTransaction(p) /\ Conc
  \/ \E p \in Procs : PayCommit(p) /\ Conc

Spec == Init /\ [][Next]_vars

\* A sequential run: a call begins only when no other call is in progress;
\* pre remembers the committed rows the call found.  Which handler serves a
\* call makes no difference to a run without overlap, so one serves them all.
SeqProcs == {CHOOSE p \in Procs : TRUE}

Alone(p) ==
  /\ \A q \in Procs \ {p} : pc[q] = "idle"
  /\ pre' = IF pc[p] = "idle"
              THEN [products |-> products, transactions |-> transactions,
                    contracts |-> contracts, installments |-> installments]
              ELSE pre
  /\ UNCHANGED <<loanSchemes, simIn, simOut, simOutTx, restocked, today>>

NextSeq ==
  \/ \E p \in SeqProcs : \E input \in CreateInputs : CreateStart(p, input) /\ Alone(p)
  \/ \E p \in SeqProcs : CreateWrite(p) /\ Alone(p)
  \/ \E p \in SeqProcs : CreateCommit(p) /\ Alone(p)
  \/ \E p \in SeqProcs : \E id \in PayInputs : PayStart(p, id) /\ Alone(p)
  \/ \E p \in SeqProcs : PayUpdateInstallment(p) /\ Alone(p)
  \/ \E p \in SeqProcs : PayUpdateTransaction(p) /\ Alone(p)
  \/ \E p \in SeqProcs : PayCommit(p) /\ Alone(p)

InitSeq ==
  /\ InitDb(SeqStock)
  /\ InitProcs
  /\ loanSchemes = ShopSchemes
  /\ simIn = NoReq
  /\ simOut = NoSim
  /\ simOutTx = NoSim
  /\ restocked = NoRestock
  /\ today = OpeningDay

SpecSeq == InitSeq /\ [][NextSeq]_vars

\* Sequential runs on any of the start dates.
InitCal ==
  /\ InitDb(InitStock)
  /\ InitProcs
  /\ loanSchemes = ShopSchemes
  /\ simIn = NoReq
  /\ simOut = NoSim
  /\ simOutTx = NoSim
  /\ restocked = NoRestock
  /\ today \in StartDates

SpecCal == InitCal /\ [][NextSeq]_vars

\* Sales and restocks of product 1 by concurrent handlers: the POS sends
\* well-formed requests, and a restock may run between any two steps.
StockInputs == {ValidInput(1)}

NextStock ==
  \/ \E p \in Procs : \E input \in StockInputs : CreateStart(p, input) /\ Conc
  \/ \E p \in Procs : CreateWrite(p) /\ Conc
  \/ \E p \in Procs : CreateCommit(p) /\ Conc
  \/ \E x \in RestockInputs : RestockProduct(x[1], x[2])

SpecStock == Init /\ [][NextStock]_vars

\* ------------------------------------------------------- operator actions
AllIdle == \A p \in Procs : pc[p] = "idle"

\* An operator edits one field of a live LoanScheme row: a new rate, a new
\* minimum down payment, new tenor options, or the active flag switched.
SchemeFields == {"interest_rate", "min_dp_percent", "tenor_options", "is_active"}

EditedScheme(scheme, field) ==
  CASE field = "interest_rate" -> [scheme EXCEPT !.interest_rate = 250]
    [] field = "min_dp_percent" -> [scheme EXCEPT !.min_dp_percent = 500]
    [] field = "tenor_options" -> [scheme EXCEPT !.tenor_options = <<2>>]
    [] field = "is_active" -> [scheme EXCEPT !.is_active = ~@]

\* The fields of the scheme table that differ from the table the shop
\* started with.
EditedFields(table) ==
  {x \in (DOMAIN table) \X SchemeFields : table[x[1]][x[2]] # ShopSchemes[x[1]][x[2]]}

EditScheme(id, field) ==
  /\ loanSchemes' = [loanSchemes EXCEPT ![id] = EditedScheme(@, field)]
  /\ loanSchemes' # loanSchemes
  /\ Cardinality(EditedFields(loanSchemes')) <= MaxEdits
  /\ result' = NoResult
  /\ UNCHANGED <<products, transactions, contracts, installments,
                 pc, req, loc, wr, pre, simIn, simOut, simOutTx, restocked,
                 today>>

\* An operator voids an ACTIVE Transaction or writes it off as bad debt.
TerminalStatuses == {"VOID", "BAD_DEBT"}

CloseTransaction(t, status) ==
  /\ transactions[t].status = "ACTIVE"
  /\ transactions' = [transactions EXCEPT ![t].status = status]
  /\ result' = NoResult
  /\ UNCHANGED <<products, loanSchemes, contracts, installments,
                 pc, req, loc, wr, pre, simIn, simOut, simOutTx, restocked,
                 today>>

\* A shop with an operator: one call at a time, and between calls the
\* operator may act.  The POS sends well-formed requests for scheme 1, which
\* is the scheme the operator edits.
AdminInputs == {ValidInput(1), ValidInput(2)}

NextAdmin ==
  \/ \E p \in SeqProcs : \E input \in AdminInputs : CreateStart(p, input) /\ Alone(p)
  \/ \E p \in SeqProcs : CreateWrite(p) /\ Alone(p)
  \/ \E p \in SeqProcs : CreateCommit(p) /\ Alone(p)
  \/ \E p \in SeqProcs : \E id \in PayInputs : PayStart(p, id) /\ Alone(p)
  \/ \E p \in SeqProcs : PayUpdateInstallment(p) /\ Alone(p)
  \/ \E p \in SeqProcs : PayUpdateTransaction(p) /\ Alone(p)
  \/ \E p \in SeqProcs : PayCommit(p) /\ Alone(p)
  \/ \E field \in SchemeFields : AllIdle /\ EditScheme(1, field)
  \/ \E t \in DOMAIN transactions : \E status \in TerminalStatuses :
       AllIdle /\ CloseTransaction(t, status)

SpecAdmin == Init /\ [][NextAdmin]_vars

\* The Simulation Engine alone: calculateSimulation is called, any number of
\* times (and calculateSimulationWithTx with it, on the same input and rows), on a scheme table that holds scheme 1 (active) with one of several
\* rates and minimum down payments and scheme 2 (inactive); scheme 3 does
\* not exist.
SimSchemeTables ==
  {(1 :> [id |-> 1, interest_rate |-> rate, min_dp_percent |-> minDp,
          tenor_options |-> <<3, 6, 9, 12>>, is_active |-> TRUE]) @@
   (2 :> [id |-> 2, interest_rate |-> rate, min_dp_percent |-> minDp,
          tenor_options |-> <<3, 6, 9, 12>>, is_active |-> FALSE]) :
     rate \in {0, 175, 200, 250}, minDp \in {0, 1000, 3333}}

SimInputs ==
  [price : {1, 999, 1000, 4500000},
   dp : {0, 100, 333, 100000, 450000, 500000, 4500000},
   schemeId : {1, 2, 3},
   tenorMonths : {3, 6, 7, 12}]

InitSim ==
  /\ InitDb(InitStock)
  /\ InitProcs
  /\ loanSchemes \in SimSchemeTables
  /\ simIn = NoReq
  /\ simOut = NoSim
  /\ simOutTx = NoSim
  /\ restocked = NoRestock
  /\ today = OpeningDay

SimulateCall(input) ==
  /\ simIn' = input
  /\ simOut' = CalculateSimulation(loanSchemes, input)
  /\ simOutTx' = CalculateSimulationWithTx(loanSchemes, input)
  /\ result' = NoResult
  /\ UNCHANGED <<products, loanSchemes, transactions, contracts, installments,
                 pc, req, loc, wr, pre, restocked, today>>

\* !x of a number x
Falsy(x) == x = 0

\* TransactionController.simulate: the request body holds four numbers (the
\* typeof tests pass); the endpoint checks them, calls calculateSimulation
\* and answers 200 with the breakdown, or 400 with the message of the error.
Simulate(input) ==
  LET answer(ok, msg, at, status) ==
        [op |-> "simulate", ok |-> ok, error |-> msg, at |-> at,
         req |-> [op |-> "simulate", input |-> input], status |-> status]
      simulation == CalculateSimulation(loanSchemes, input)
      rejected(msg) ==
        /\ result' = answer(FALSE, msg, "controller", 400)
        /\ simIn' = NoReq
        /\ simOut' = NoSim
  IN
  /\ IF Falsy(input.price) \/ Falsy(input.dp) \/ Falsy(input.schemeId)
          \/ Falsy(input.tenorMonths)
       THEN rejected(ErrMissingFields)
     ELSE IF input.price <= 0 \/ input.dp < 0 \/ input.schemeId <= 0
               \/ input.tenorMonths <= 0
       THEN rejected(ErrNotPositive)
     ELSE IF input.dp >= input.price THEN rejected(ErrDpTooHigh)
     ELSE /\ simIn' = input
          /\ simOut' = simulation
          /\ result' = IF simulation.ok
                         THEN answer(TRUE, NoError, "calculateSimulation", 200)
                         ELSE answer(FALSE, simulation.error,
                                     "calculateSimulation", 400)
  /\ simOutTx' = NoSim
  /\ UNCHANGED <<products, loanSchemes, transactions, contracts, installments,
                 pc, req, loc, wr, pre, restocked, today>>

NextSim ==
  \/ \E input \in SimInputs : SimulateCall(input)
  \/ \E input \in SimInputs : Simulate(input)

SpecSim == InitSim /\ [][NextSim]_vars

\* ================================================================= claims
PayPcs == {"p_update", "p_transaction", "p_commit"}

InstallmentsOf(contractId) ==
  {j \in DOMAIN installments : installments[j].contract_id = contractId}

ContractsOf(transactionId) ==
  {c \in DOMAIN contracts : contracts[c].transaction_id = transactionId}

PaidOf(contractId) ==
  {j \in InstallmentsOf(contractId) : installments[j].status = "PAID"}

DbIsPre ==
  /\ products = pre.products
  /\ transactions = pre.transactions
  /\ contracts = pre.contracts
  /\ installments = pre.installments

\* C1: every contract a createTransaction call has committed has exactly
\* tenor_months installments, and their installment_nth values are exactly
\* 1..tenor_months (so each occurs once, with no gap).
C1_InstallmentsComplete ==
  \A c \in DOMAIN contracts :
    /\ Cardinality(InstallmentsOf(c)) = contracts[c].tenor_months
    /\ {installments[j].installment_nth : j \in InstallmentsOf(c)}
         = 1..contracts[c].tenor_months

C1_Witness ==
  /\ result.op = "create" /\ result.ok
  /\ \E c \in DOMAIN contracts :
       contracts[c].tenor_months = 2 /\ Cardinality(InstallmentsOf(c)) = 2

\* C2: under any interleaving of createTransaction calls, no product's
\* stock_qty is ever negative.
C2_StockNeverNegative ==
  \A id \in DOMAIN products : products[id].stock_qty >= 0

\* C3: of two concurrent payInstallment calls on the same UNPAID installment
\* at most one succeeds: a call that commits and answers success finds its
\* installment still UNPAID, so no installment is paid twice.
C3_AtMostOnePaymentSucceeds ==
  [][\A p \in Procs :
       (pc[p] = "p_commit" /\ pc'[p] = "idle")
         => installments[req[p].installmentId].status = "UNPAID"]_vars

\* C4: whenever no payment is in progress, a Transaction is PAID exactly
\* when every installment of its contract is PAID, whatever the interleaving
\* of the payInstallment calls was.
C4_PaidIffAllInstallmentsPaid ==
  (\A p \in Procs : pc[p] \notin PayPcs) =>
    \A t \in DOMAIN transactions :
      (transactions[t].status = "PAID") <=>
        (\A c \in ContractsOf(t) :
           \A j \in InstallmentsOf(c) : installments[j].status = "PAID")

\* C5: in a sequential run, between calls, a Transaction is PAID once as many
\* payments have succeeded as its contract has installments, and is still
\* ACTIVE after any smaller number of payments: the call that pays the last
\* UNPAID installment is the one that sets PAID.
C5_CompletionInSameCall ==
  AllIdle =>
    \A c \in DOMAIN contracts :
      transactions[contracts[c].transaction_id].status =
        IF Cardinality(PaidOf(c)) = contracts[c].tenor_months
          THEN "PAID" ELSE "ACTIVE"

C5_Witness ==
  /\ result.op = "pay" /\ result.ok
  /\ \E c \in DOMAIN contracts :
       /\ contracts[c].tenor_months = 2
       /\ Cardinality(PaidOf(c)) = 2
       /\ transactions[contracts[c].transaction_id].status = "PAID"
       /\ pre.transactions[contracts[c].transaction_id].status = "ACTIVE"

\* C6: in a sequential run a payInstallment call succeeds only on an
\* installment that was not PAID when the call began, and leaves it PAID with
\* amount_paid = amount_due and paid_at set; a call on an installment that
\* was PAID fails with 'already paid' and changes no row.
C6_SecondPaymentRejected ==
  /\ (result.op = "pay" /\ result.ok) =>
       LET id == result.req.installmentId
       IN  /\ pre.installments[id].status = "UNPAID"
           /\ installments[id].status = "PAID"
           /\ installments[id].amount_paid = installments[id].amount_due
           /\ installments[id].paid_at = Now
  /\ (result.op = "pay" /\ result.error = ErrAlreadyPaid) =>
       /\ pre.installments[result.req.installmentId].status = "PAID"
       /\ DbIsPre
  /\ (result.op = "pay" /\ result.req.installmentId \in DOMAIN pre.installments
        /\ pre.installments[result.req.installmentId].status = "PAID") =>
       /\ ~result.ok
       /\ result.error = ErrAlreadyPaid

C6_Witness ==
  /\ result.op = "pay" /\ ~result.ok /\ result.error = ErrAlreadyPaid
  /\ installments[result.req.installmentId].status = "PAID"

\* C7: in a sequential run the stock of the product equals its initial stock
\* minus the number of transactions created on it, and a createTransaction
\* call begun when the product's stock_qty is 0 fails and changes no row.
C7_StockCountsSales ==
  /\ products[1].stock_qty =
       SeqStock - Cardinality({t \in DOMAIN transactions :
                                 transactions[t].productId = 1})
  /\ (result.op = "create" /\ result.req.input.productId \in DOMAIN pre.products
        /\ pre.products[result.req.input.productId].stock_qty = 0) =>
       /\ ~result.ok
       /\ DbIsPre

C7_Witness ==
  /\ result.op = "create" /\ ~result.ok /\ result.error = ErrStock
  /\ pre.products[1].stock_qty = 0
  /\ Cardinality(DOMAIN transactions) = SeqStock

\* C8: a createTransaction call that fails, at whichever step, leaves the
\* committed rows as it found them, and every Transaction row has exactly
\* one contract with all tenor_months installments.
C8_CreateIsAtomic ==
  /\ (result.op = "create" /\ ~result.ok) => DbIsPre
  /\ \A t \in DOMAIN transactions :
       /\ Cardinality(ContractsOf(t)) = 1
       /\ \A c \in ContractsOf(t) :
            Cardinality(InstallmentsOf(c)) = contracts[c].tenor_months

C8_Witness ==
  /\ result.op = "create" /\ ~result.ok
  /\ result.error = ErrStorage /\ result.at = "product.update"
  /\ result.req.input.tenorMonths = 2
  /\ DOMAIN transactions # {}

\* C9: a payInstallment call that fails at the update of the parent
\* Transaction leaves the installment as it was: UNPAID, amount_paid 0, no
\* paid_at.
C9_FailedCompletionRollsBack ==
  (result.op = "pay" /\ ~result.ok /\ result.at = "transaction.update") =>
    LET id == result.req.installmentId
    IN  /\ installments[id] = pre.installments[id]
        /\ installments[id].status = "UNPAID"
        /\ installments[id].amount_paid = Dec(0)
        /\ installments[id].paid_at = Null

C9_Witness ==
  /\ result.op = "pay" /\ ~result.ok /\ result.at = "transaction.update"
  /\ result.error = ErrStorage
  /\ installments[result.req.installmentId].status = "UNPAID"

\* principal * rate/100 * tenorMonths, exactly, for a whole principal and a
\* rate given in hundredths of a percent.
ExactInterest(principal, rateHundredths, tenorMonths) ==
  LET high == principal \div FracUnit
      low == principal % FracUnit
      k == rateHundredths * tenorMonths
  IN  [w |-> high * k + (low * k) \div FracUnit, f |-> (low * k) % FracUnit]

\* C10: every accepted simulation has principal = price - dp, interestAmount
\* = principal * interest_rate / 100 * tenorMonths, totalLoan = principal +
\* interestAmount, and monthlyInstallment the smallest whole number that is
\* >= totalLoan / tenorMonths; price 4,500,000, dp 500,000, rate 2, tenor 6
\* give 4,000,000 / 480,000 / 4,480,000 / 746,667.
C10_SimulationFormula ==
  simOut.ok =>
    LET raw == simOut.raw
        rate == loanSchemes[simIn.schemeId].interest_rate
        m == raw.monthlyInstallment.w
    IN  /\ raw.principal = Dec(simIn.price - simIn.dp)
        /\ raw.interestAmount =
             ExactInterest(simIn.price - simIn.dp, rate, simIn.tenorMonths)
        /\ raw.totalLoan.w = raw.principal.w + raw.interestAmount.w
        /\ raw.totalLoan.f = raw.interestAmount.f
        /\ raw.monthlyInstallment.f = 0
        /\ ~DecLt(Dec(m * simIn.tenorMonths), raw.totalLoan)
        /\ DecLt(Dec((m - 1) * simIn.tenorMonths), raw.totalLoan)
        /\ (simIn.price = 4500000 /\ simIn.dp = 500000 /\ rate = 200
              /\ simIn.tenorMonths = 6) =>
             /\ raw.principal = Dec(4000000)
             /\ raw.interestAmount = Dec(480000)
             /\ raw.totalLoan = Dec(4480000)
             /\ raw.monthlyInstallment = Dec(746667)

C10_Witness ==
  /\ simOut.ok
  /\ simIn.price = 4500000 /\ simIn.dp = 500000 /\ simIn.tenorMonths = 6
  /\ loanSchemes[1].interest_rate = 200 /\ loanSchemes[1].min_dp_percent = 1000
  /\ simOut.raw.monthlyInstallment = Dec(746667)

\* The sum of amount_due over a set of installments (amount_due is a whole
\* number of currency units).
RECURSIVE SumAmountDue(_)
SumAmountDue(ids) ==
  IF ids = {} THEN 0
  ELSE LET j == CHOOSE k \in ids : TRUE
       IN  installments[j].amount_due.w + SumAmountDue(ids \ {j})

\* C11: for every contract a createTransaction call has committed, the sum
\* of amount_due over its installments is >= totalLoan (= principal_amount +
\* total_interest), and equals it exactly when totalLoan / tenor_months is a
\* whole number.
C11_InstallmentsCoverLoan ==
  \A c \in DOMAIN contracts :
    LET totalLoan == DecPlus(contracts[c].principal_amount,
                             contracts[c].total_interest)
        sum == Dec(SumAmountDue(InstallmentsOf(c)))
        whole == totalLoan.f = 0 /\ totalLoan.w % contracts[c].tenor_months = 0
    IN  /\ \A j \in InstallmentsOf(c) : installments[j].amount_due.f = 0
        /\ ~DecLt(sum, totalLoan)
        /\ (sum = totalLoan) <=> whole

C11_Witness ==
  /\ result.op = "create" /\ result.ok
  /\ \E c \in DOMAIN contracts :
       /\ DecPlus(contracts[c].principal_amount,
                  contracts[c].total_interest).f # 0
       /\ Cardinality(InstallmentsOf(c)) = 2
       /\ DecLt(DecPlus(contracts[c].principal_amount,
                        contracts[c].total_interest),
                Dec(SumAmountDue(InstallmentsOf(c))))
  /\ \E c \in DOMAIN contracts :
       Dec(SumAmountDue(InstallmentsOf(c))) =
         DecPlus(contracts[c].principal_amount, contracts[c].total_interest)

\* monthlyInstallment * tenorMonths - totalLoan of the last simulation.
SimExcess ==
  DecMinus(Dec(simOut.raw.monthlyInstallment.w * simIn.tenorMonths),
           simOut.raw.totalLoan)

\* C12: for every accepted simulation input, monthlyInstallment * tenorMonths
\* is at least totalLoan and exceeds it by at most tenorMonths - 1 currency
\* units.
C12_ExcessAtMostTenorMinusOne ==
  (simOut.ok /\ simIn.dp < simIn.price) =>
    /\ ~DecLt(SimExcess, Dec(0))
    /\ ~DecLt(Dec(simIn.tenorMonths - 1), SimExcess)

\* C12 as amended: the excess is at least 0 and less than tenorMonths
\* currency units, and at most tenorMonths - 1 when totalLoan is a whole
\* number.
C12_ExcessBelowTenor ==
  (simOut.ok /\ simIn.dp < simIn.price) =>
    /\ ~DecLt(SimExcess, Dec(0))
    /\ DecLt(SimExcess, Dec(simIn.tenorMonths))
    /\ simOut.raw.totalLoan.f = 0 =>
         ~DecLt(Dec(simIn.tenorMonths - 1), SimExcess)

C12_Witness ==
  /\ simOut.ok /\ simIn.dp < simIn.price
  /\ simOut.raw.totalLoan.f # 0
  /\ DecLt(Dec(simIn.tenorMonths - 1), SimExcess)
  /\ DecLt(SimExcess, Dec(simIn.tenorMonths))

\* dp < price * min_dp_percent / 100, for a percentage given in hundredths.
BelowMinimumDp(price, dp, minDpHundredths) ==
  LET high == price \div FracUnit
      low == price % FracUnit
      whole == high * minDpHundredths + (low * minDpHundredths) \div FracUnit
      part == (low * minDpHundredths) % FracUnit
  IN  dp < whole \/ (dp = whole /\ part > 0)

\* C13: given an active scheme and an allowed tenor, the simulation rejects
\* an input exactly when dp < price * min_dp_percent / 100, and then with the
\* insufficient-down-payment error; a dp equal to the minimum is accepted,
\* and price 4,500,000 with dp 100,000 at 10% is rejected.
C13_RejectsExactlyBelowMinimum ==
  (/\ simIn # NoReq
   /\ simIn.schemeId \in DOMAIN loanSchemes
   /\ loanSchemes[simIn.schemeId].is_active
   /\ simIn.tenorMonths \in SeqToSet(loanSchemes[simIn.schemeId].tenor_options))
  =>
    LET below == BelowMinimumDp(simIn.price, simIn.dp,
                                loanSchemes[simIn.schemeId].min_dp_percent)
    IN  /\ simOut.ok <=> ~below
        /\ ~simOut.ok => simOut.error = ErrMinDp
        /\ (simIn.price = 4500000 /\ simIn.dp = 100000
              /\ loanSchemes[simIn.schemeId].min_dp_percent = 1000) =>
             simOut.error = ErrMinDp

C13_Witness ==
  /\ simOut.ok
  /\ simIn.price = 4500000 /\ simIn.dp = 450000 /\ simIn.tenorMonths = 6
  /\ loanSchemes[simIn.schemeId].min_dp_percent = 1000

\* The failure the validation order scheme missing, scheme inactive, tenor
\* not allowed, dp below the minimum gives for the last simulation input, or
\* the empty message when no rule is violated.
FirstViolation ==
  IF simIn.schemeId \notin DOMAIN loanSchemes THEN ErrSchemeNotFound
  ELSE IF ~loanSchemes[simIn.schemeId].is_active THEN ErrSchemeInactive
  ELSE IF simIn.tenorMonths
            \notin SeqToSet(loanSchemes[simIn.schemeId].tenor_options)
    THEN ErrTenor
  ELSE IF BelowMinimumDp(simIn.price, simIn.dp,
                         loanSchemes[simIn.schemeId].min_dp_percent)
    THEN ErrMinDp
  ELSE NoError

\* C14: the simulation reports the failure of the earliest violated rule in
\* the order scheme missing, scheme inactive, tenor not in tenor_options, dp
\* below the minimum, and succeeds when no rule is violated.
C14_FirstViolationWins ==
  simIn # NoReq =>
    /\ simOut.error = FirstViolation
    /\ simOut.ok <=> FirstViolation = NoError

C14_Witness ==
  /\ simIn # NoReq
  /\ simIn.schemeId = 1 /\ simIn.tenorMonths = 7
  /\ BelowMinimumDp(simIn.price, simIn.dp, loanSchemes[1].min_dp_percent)
  /\ simOut.error = ErrTenor

\* C15: no step changes the scheme_snapshot of an existing Transaction (no
\* edit of a live LoanScheme, no createTransaction, no payInstallment), and
\* the snapshot of a Transaction a step creates equals the live scheme row
\* at that time.
C15_SnapshotFrozen ==
  [][/\ \A t \in DOMAIN transactions :
          /\ t \in DOMAIN transactions'
          /\ transactions'[t].scheme_snapshot = transactions[t].scheme_snapshot
     /\ \A t \in DOMAIN transactions' \ DOMAIN transactions :
          transactions'[t].scheme_snapshot =
            loanSchemes[transactions'[t].scheme_snapshot.id]]_vars

C15_Witness ==
  /\ result.op = "pay" /\ result.ok
  /\ \E t \in DOMAIN transactions :
       /\ transactions[t].scheme_snapshot = ShopSchemes[1]
       /\ transactions[t].scheme_snapshot # loanSchemes[1]
       /\ transactions[t].status = "PAID"

\* C16: a rejected createTransaction request is answered 404 when the
\* product, the customer or the scheme is unknown, 409 when the product is
\* inactive or out of stock or the scheme is inactive, and 400 otherwise.
C16_StatusByCause ==
  (result.op = "create" /\ ~result.ok) =>
    result.status =
      IF result.error \in {ErrProductMissing, ErrCustomerMissing,
                           ErrSchemeNotFound} THEN 404
      ELSE IF result.error \in {ErrProductInactive, ErrStock,
                                ErrSchemeInactive} THEN 409
      ELSE 400

\* C17: the Simulate endpoint answers 200 with a breakdown to every request
\* with price > 0, dp >= 0, schemeId > 0, tenorMonths > 0 and dp < price that
\* satisfies the scheme rules, a dp of 0 under a scheme without a minimum
\* included.
C17_SimulateAcceptsValidInput ==
  (/\ result.op = "simulate"
   /\ result.req.input.price > 0 /\ result.req.input.dp >= 0
   /\ result.req.input.schemeId > 0 /\ result.req.input.tenorMonths > 0
   /\ result.req.input.dp < result.req.input.price
   /\ CalculateSimulation(loanSchemes, result.req.input).ok)
  => (result.ok /\ result.status = 200 /\ simOut.ok)

\* C18: once a Transaction is VOID or BAD_DEBT, no step (and so no
\* payInstallment call on any of its installments) changes its status.
C18_ClosedStaysClosed ==
  [][\A t \in DOMAIN transactions :
       transactions[t].status \in TerminalStatuses =>
         transactions'[t].status = transactions[t].status]_vars

\* The checks createTransaction runs before it writes.
ServiceChecks ==
  {"validate", "product.findUnique", "customer.findUnique",
   "calculateSimulationWithTx"}

DueDateDayOutOfRange(input) == input.dueDateDay < 1 \/ input.dueDateDay > 28

\* The error of the earliest failing check in the order product (missing,
\* inactive, out of stock), customer, simulation rules, on the rows the call
\* found; NoError when none fails.
FailureOfRows(input) ==
  IF input.productId \notin DOMAIN pre.products THEN ErrProductMissing
  ELSE IF ~pre.products[input.productId].is_active THEN ErrProductInactive
  ELSE IF pre.products[input.productId].stock_qty <= 0 THEN ErrStock
  ELSE IF input.customerId \notin CustomerIds THEN ErrCustomerMissing
  ELSE CalculateSimulationWithTx(loanSchemes, input).error

\* C19: createTransaction reports the earliest failing check in the order
\* product, customer, simulation rules, dueDateDay range.
C19_DueDateDayCheckedLast ==
  (result.op = "create" /\ result.at \in ServiceChecks) =>
    result.error =
      IF FailureOfRows(result.req.input) # NoError
        THEN FailureOfRows(result.req.input)
        ELSE ErrDueDateDay

\* C19 as amended: createTransaction reports the earliest failing check in
\* the order dueDateDay range, product (missing, inactive, out of stock),
\* customer, simulation rules, and a call that passes them all is not
\* rejected by any of them.
C19_DueDateDayCheckedFirst ==
  /\ (result.op = "create" /\ result.at \in ServiceChecks) =>
       result.error =
         IF DueDateDayOutOfRange(result.req.input) THEN ErrDueDateDay
         ELSE FailureOfRows(result.req.input)
  /\ (result.op = "create" /\ result.at \notin ServiceChecks
        /\ result.at # "controller") =>
       /\ ~DueDateDayOutOfRange(result.req.input)
       /\ FailureOfRows(result.req.input) = NoError

C19_Witness ==
  /\ result.op = "create" /\ result.at = "validate"
  /\ result.error = ErrDueDateDay
  /\ result.req.input.productId \notin DOMAIN pre.products
  /\ DueDateDayOutOfRange(result.req.input)

\* The number of the calendar month a day lies in.
MonthIndex(date) == date.year * 12 + date.month

\* C20: whatever the start date, installment i of a contract is due on day
\* due_date_day of the calendar month i months after the month of the
\* start date.
C20_DueInTheIthMonth ==
  \A c \in DOMAIN contracts :
    \A j \in InstallmentsOf(c) :
      /\ installments[j].due_date.day = contracts[c].due_date_day
      /\ MonthIndex(installments[j].due_date) =
           MonthIndex(contracts[c].start_date) + installments[j].installment_nth

\* a is an earlier calendar day than b.
DayBefore(a, b) ==
  \/ MonthIndex(a) < MonthIndex(b)
  \/ (MonthIndex(a) = MonthIndex(b) /\ a.day < b.day)

\* C21: within one contract the due dates strictly increase with
\* installment_nth, whatever the start date: no two installments share a due
\* date and none is due before an earlier-numbered one.
C21_DueDatesIncrease ==
  \A c \in DOMAIN contracts :
    \A j, k \in InstallmentsOf(c) :
      installments[j].installment_nth < installments[k].installment_nth =>
        DayBefore(installments[j].due_date, installments[k].due_date)

\* C22: every persisted contract obeys the rules of the scheme copied into
\* its Transaction: the tenor is one of the snapshot's tenor_options, the
\* snapshot is active, dp_amount >= total_price * min_dp_percent / 100, and
\* principal_amount, total_interest and monthly_installment are what the
\* formulas give for the snapshot's rate, whatever the client sent.
C22_ContractObeysScheme ==
  \A c \in DOMAIN contracts :
    LET contract == contracts[c]
        sale == transactions[contract.transaction_id]
        scheme == sale.scheme_snapshot
        principal == sale.total_price - sale.dp_amount
        totalLoan == DecPlus(contract.principal_amount, contract.total_interest)
        m == contract.monthly_installment.w
    IN  /\ \E k \in 1..Len(scheme.tenor_options) :
             scheme.tenor_options[k] = contract.tenor_months
        /\ scheme.is_active
        /\ ~BelowMinimumDp(sale.total_price, sale.dp_amount,
                           scheme.min_dp_percent)
        /\ contract.principal_amount = Dec(principal)
        /\ contract.total_interest =
             ExactInterest(principal, scheme.interest_rate,
                           contract.tenor_months)
        /\ contract.monthly_installment.f = 0
        /\ ~DecLt(Dec(m * contract.tenor_months), totalLoan)
        /\ DecLt(Dec((m - 1) * contract.tenor_months), totalLoan)

\* Two sales are on record, one of each tenor on offer, the second just
\* committed.
C22_Witness ==
  /\ result.op = "create" /\ result.ok
  /\ \E c, d \in DOMAIN contracts :
       /\ contracts[c].tenor_months = 1
       /\ contracts[d].tenor_months = 2
       /\ contracts[d].total_interest = Dec(36)

\* C23: every Transaction persisted through the endpoint has
\* 0 <= dp_amount < total_price, and its contract has principal_amount =
\* total_price - dp_amount > 0.
C23_DpBelowPrice ==
  /\ \A t \in DOMAIN transactions :
       /\ 0 <= transactions[t].dp_amount
       /\ transactions[t].dp_amount < transactions[t].total_price
  /\ \A c \in DOMAIN contracts :
       LET sale == transactions[contracts[c].transaction_id]
       IN  /\ contracts[c].principal_amount =
                Dec(sale.total_price - sale.dp_amount)
           /\ DecLt(Dec(0), contracts[c].principal_amount)

\* A request whose dp equals the price was refused by the controller while a
\* sale is on record.
C23_Witness ==
  /\ result.op = "create" /\ ~result.ok
  /\ result.error = ErrDpTooHigh
  /\ result.req.input.dp = result.req.input.price
  /\ DOMAIN transactions # {}
  /\ DbIsPre

\* C24: every persisted CreditContract has due_date_day in 1..28, and a
\* createTransaction call with dueDateDay below 1 or above 28 fails and
\* persists nothing.
C24_DueDateDayInRange ==
  /\ \A c \in DOMAIN contracts : contracts[c].due_date_day \in 1..28
  /\ (result.op = "create" /\ DueDateDayOutOfRange(result.req.input)) =>
       ~result.ok /\ DbIsPre

\* A request for day 29 was refused while a sale is on record.
C24_Witness ==
  /\ result.op = "create" /\ ~result.ok
  /\ result.error = ErrDueDateDay
  /\ result.req.input.dueDateDay = 29
  /\ DOMAIN contracts # {}
  /\ DbIsPre

\* C25: the status of an installment only moves from UNPAID to PAID: in
\* every state each installment is UNPAID or PAID, no step removes an
\* installment, and an installment that is PAID is PAID after every step.
C25_PaidStaysPaid ==
  [][\A j \in DOMAIN installments :
       /\ j \in DOMAIN installments'
       /\ installments[j].status \in {"UNPAID", "PAID"}
       /\ installments'[j].status \in {"UNPAID", "PAID"}
       /\ installments[j].status = "PAID" => installments'[j].status = "PAID"]_vars

\* A payment has just turned an installment PAID while another installment
\* of an earlier payment is still PAID.
C25_Witness ==
  /\ result.op = "pay" /\ result.ok
  /\ installments[result.req.installmentId].status = "PAID"
  /\ pre.installments[result.req.installmentId].status = "UNPAID"
  /\ \E j \in DOMAIN pre.installments : pre.installments[j].status = "PAID"

\* C26: after every step each installment is either UNPAID with amount_paid
\* 0 and no paid_at, or PAID with amount_paid = amount_due and paid_at set;
\* its amount_due equals the monthly_installment of its contract and is the
\* amount_due it had before the step.
C26_InstallmentRecord ==
  [][\A j \in DOMAIN installments' :
       LET row == installments'[j]
       IN  /\ \/ /\ row.status = "UNPAID"
                 /\ row.amount_paid = Dec(0)
                 /\ row.paid_at = Null
              \/ /\ row.status = "PAID"
                 /\ row.amount_paid = row.amount_due
                 /\ row.paid_at # Null
           /\ row.amount_due = contracts'[row.contract_id].monthly_installment
           /\ j \in DOMAIN installments =>
                row.amount_due = installments[j].amount_due]_vars

\* A payment has just been recorded on a contract that still has an UNPAID
\* installment.
C26_Witness ==
  /\ result.op = "pay" /\ result.ok
  /\ LET row == installments[result.req.installmentId]
     IN  /\ row.status = "PAID"
         /\ row.amount_paid = Dec(468)
         /\ row.paid_at = Now
         /\ \E j \in InstallmentsOf(row.contract_id) :
              installments[j].status = "UNPAID"

\* C27: the remainingStock a successful createTransaction call returns is
\* the stock_qty of the product as persisted right after that call's
\* decrement, also when other sales or restocks run at the same time.
C27_RemainingStockIsPersisted ==
  (result.op = "create" /\ result.ok) =>
    result.remainingStock = products[result.req.input.productId].stock_qty

\* The committed sales of a product.
SalesOf(productId) ==
  {t \in DOMAIN transactions : transactions[t].productId = productId}

\* C30: restocks and sales never lose an update: after every step, in any
\* interleaving, the stock_qty of a product is its initial stock plus the
\* quantities of the accepted restocks minus the number of its committed
\* sales; and a restock with quantity_to_add <= 0 is rejected and leaves the
\* products unchanged.
C30_NoLostStockUpdate ==
  [][/\ \A id \in DOMAIN products' :
          products'[id].stock_qty =
            InitStock + restocked'[id] - Cardinality(SalesOf(id))'
     /\ (result'.op = "restock" /\ result'.req.quantity_to_add <= 0) =>
          /\ ~result'.ok
          /\ result'.status = 400
          /\ products' = products]_vars

\* A sale that read the product row before a restock has just committed:
\* both the restock and the sale show in the stock.
C30_Witness ==
  /\ result.op = "create" /\ result.ok
  /\ restocked[1] = 2
  /\ Cardinality(SalesOf(1)) = 2
  /\ products[1].stock_qty = 1
  /\ result.remainingStock # products[1].stock_qty

\* C28: on every input and scheme table calculateSimulationWithTx rejects
\* exactly what calculateSimulation rejects, with the same error, and
\* otherwise returns the same principal, interestAmount, totalLoan and
\* monthlyInstallment.
C28_WithTxAgrees ==
  simOutTx # NoSim =>
    /\ simOutTx.ok = simOut.ok
    /\ simOutTx.error = simOut.error
    /\ simOut.ok =>
         /\ simOutTx.raw.principal = simOut.raw.principal
         /\ simOutTx.raw.interestAmount = simOut.raw.interestAmount
         /\ simOutTx.raw.totalLoan = simOut.raw.totalLoan
         /\ simOutTx.raw.monthlyInstallment = simOut.raw.monthlyInstallment

\* Both were called on an input with a tenor not on offer and a dp below the
\* minimum, and both refused it for the tenor.
C28_Witness ==
  /\ simOutTx # NoSim
  /\ simIn.tenorMonths = 7 /\ simIn.dp = 0 /\ simIn.schemeId = 1
  /\ loanSchemes[1].min_dp_percent = 1000
  /\ ~simOutTx.ok /\ simOutTx.error = ErrTenor
  /\ ~simOut.ok /\ simOut.error = ErrTenor

\* C29: in a sequential run no payment order is enforced: a payInstallment
\* call on an installment that is UNPAID is refused by no rule (it succeeds
\* unless the storage fails), whether or not earlier installments are paid,
\* and after a successful payment the Transaction is PAID exactly when no
\* installment of the contract is left UNPAID, whatever the number of the
\* installment paid last.
C29_NoPaymentOrder ==
  (/\ result.op = "pay"
   /\ result.req.installmentId \in DOMAIN pre.installments
   /\ pre.installments[result.req.installmentId].status = "UNPAID") =>
    LET row == installments[result.req.installmentId]
        sale == contracts[row.contract_id].transaction_id
    IN  /\ result.ok \/ result.error = ErrStorage
        /\ result.ok =>
             (transactions[sale].status = "PAID" <=>
                \A j \in InstallmentsOf(row.contract_id) :
                  installments[j].status = "PAID")

\* Installment 2 of a contract was paid first; the payment of installment 1
\* has just completed the Transaction.
C29_Witness ==
  /\ result.op = "pay" /\ result.ok
  /\ LET row == installments[result.req.installmentId]
     IN  /\ row.installment_nth = 1
         /\ contracts[row.contract_id].tenor_months = 2
         /\ \E j \in DOMAIN pre.installments :
              /\ pre.installments[j].contract_id = row.contract_id
              /\ pre.installments[j].installment_nth = 2
              /\ pre.installments[j].status = "PAID"
         /\ pre.transactions[contracts[row.contract_id].transaction_id].status
              = "ACTIVE"
         /\ transactions[contracts[row.contract_id].transaction_id].status
              = "PAID"

====
